---------------------------- MODULE Spec2Model ----------------------------
(***************************************************************************)
(* The credit-gated weighted draw of the Elyxyr lootbox backend.           *)
(*                                                                         *)
(* The repository holds the express server in two builds:                  *)
(*   "part_000"  src/unnamed/part_000, lines 1-352                         *)
(*   "server"    src/src/server.ts, lines 352-797                          *)
(* They share getCustomerCredits / setCustomerCredits / weightedRandom and *)
(* differ in the validation of the set-credits route, in what              *)
(* createLootboxOrder does with a reply that carries no order, and in the  *)
(* text of some messages.  The variable build selects the one that runs.   *)
(*                                                                         *)
(* Every await of a handler is a point where other requests interleave, so *)
(* each action below is one handler resumed from one await to the next.    *)
(*                                                                         *)
(* An optional value (null, undefined, NaN) is a sequence of length <= 1:  *)
(* <<>> is the absent value, <<v>> is v.  A string that is converted to or *)
(* from a number is a sequence of one-character strings.                   *)
(***************************************************************************)
EXTENDS Integers, Sequences, FiniteSets, TLC

VARIABLES
    build,      \* which build of the server runs
    customers,  \* the shop's customers
    store,      \* the shop's metafields custom.credits_elyxyr, per customer
    nextId,     \* the identifier the shop gives the next metafield it creates
    orders,     \* the orders the shop has created
    pc,         \* per request: the await its handler is suspended at
    loc,        \* per request: the handler's local variables
    resp,       \* per request: the HTTP responses sent, in order
    hist,       \* per request: the external calls and steps made, in order
    prior,      \* per request: the requests already answered when it arrived
    replies,    \* per request: how its shopifyRequests ended, in order
    store0,     \* the store when the server started
    items,      \* Sample: the item list handed to weightedRandom
    rnd,        \* Sample: the value of Math.random() * total
    picked      \* Sample: the results weightedRandom returned

vars == <<build, customers, store, nextId, orders, pc, loc, resp, hist, prior,
          replies, store0, items, rnd, picked>>

-----------------------------------------------------------------------------
(* Bounds of the model *)

\* the number of requests the server handles in one behaviour
NumReqs == 2

\* the longest item list handed to weightedRandom in SampleSpec
MaxItems == 3

\* the largest weight of an item in SampleSpec
MaxWeight == 3

Reqs == 1..NumReqs

Builds == {"part_000", "server"}

-----------------------------------------------------------------------------
(* Optional values *)

None == <<>>

Some(v) == <<v>>

IsSome(o) == o # <<>>

Val(o) == o[1]

-----------------------------------------------------------------------------
(* String(n), n.toString() and parseInt(s, 10) on decimal strings *)

Digits == <<"0", "1", "2", "3", "4", "5", "6", "7", "8", "9">>

IsDigit(ch) == \E d \in 1..10 : Digits[d] = ch

DigitVal(ch) == (CHOOSE d \in 1..10 : Digits[d] = ch) - 1

RECURSIVE NatToString(_)
NatToString(n) ==
    IF n < 10 THEN <<Digits[n + 1]>>
    ELSE NatToString(n \div 10) \o <<Digits[(n % 10) + 1]>>

\* String(newBalance) of an integer: a minus sign, then the decimal digits
NumberToString(n) ==
    IF n < 0 THEN <<"-">> \o NatToString(0 - n) ELSE NatToString(n)

\* the longest prefix of s made of digits
RECURSIVE DigitPrefix(_)
DigitPrefix(s) ==
    IF s = <<>> \/ ~IsDigit(Head(s)) THEN <<>>
    ELSE <<Head(s)>> \o DigitPrefix(Tail(s))

RECURSIVE DigitsToNat(_, _)
DigitsToNat(s, acc) ==
    IF s = <<>> THEN acc
    ELSE DigitsToNat(Tail(s), acc * 10 + DigitVal(Head(s)))

\* parseInt(s, 10): an optional sign, then the leading digits; what follows
\* them is ignored; NaN (None) when there is no digit
parseInt(s) ==
    LET neg  == s # <<>> /\ Head(s) = "-"
        pos  == s # <<>> /\ Head(s) = "+"
        body == IF neg \/ pos THEN Tail(s) ELSE s
        ds   == DigitPrefix(body)
    IN  IF ds = <<>> THEN None
        ELSE Some(IF neg THEN 0 - DigitsToNat(ds, 0) ELSE DigitsToNat(ds, 0))

-----------------------------------------------------------------------------
(* The lootbox table and the weighted draw *)

\* variantId is a 14-digit number in the source; it is only copied, never
\* computed with, and is kept as its decimal text
LOOTBOXES ==
    << [id          |-> "elyxyr_basic",
        name        |-> "Lootbox Elyxyr Basic",
        priceCredits |-> 10,
        items       |-> << [variantId |-> "56903978746240",
                            title     |-> "Produit Test Unique",
                            weight    |-> 100] >>] >>

\* getLootbox falling back to the first box of the table
getLootboxOrFirst(boxId) ==
    IF \E i \in 1..Len(LOOTBOXES) : LOOTBOXES[i].id = boxId
    THEN Some(LOOTBOXES[CHOOSE i \in 1..Len(LOOTBOXES) :
                  LOOTBOXES[i].id = boxId])
    ELSE Some(LOOTBOXES[1])

\* LOOTBOXES.find(b => b.id === boxId): the first match, or undefined
getLootbox(boxId) ==
    IF \E i \in 1..Len(LOOTBOXES) : LOOTBOXES[i].id = boxId
    THEN Some(LOOTBOXES[CHOOSE i \in 1..Len(LOOTBOXES) :
                  /\ LOOTBOXES[i].id = boxId
                  /\ \A j \in 1..(i - 1) : LOOTBOXES[j].id # boxId])
    ELSE None

\* items.reduce((s, i) => s + i.weight, 0)
RECURSIVE totalWeight(_)
totalWeight(its) ==
    IF its = <<>> THEN 0 ELSE Head(its).weight + totalWeight(Tail(its))

\* drawHits with the boundary given to the next item
drawHitsStrict(r, sum) == r < sum

\* the test of the loop of weightedRandom
drawHits(r, sum) == r <= sum

\* lastItem reading one place past the end of the list
lastItemPastEnd(its) == None

\* `return items[items.length - 1]`: undefined for an empty list
lastItem(its) == IF its = <<>> THEN None ELSE Some(its[Len(its)])

\* the loop of weightedRandom from item i on, sum being the weights before i;
\* past the end it is items[items.length - 1], undefined for an empty list
RECURSIVE drawFrom(_, _, _, _)
drawFrom(its, r, i, sum) ==
    IF i > Len(its)
    THEN lastItem(its)
    ELSE IF drawHits(r, sum + its[i].weight)
         THEN Some(its[i])
         ELSE drawFrom(its, r, i + 1, sum + its[i].weight)

\* weightedRandom(items) with r the value of Math.random() * total
weightedRandom(its, r) == drawFrom(its, r, 1, 0)

\* values of Math.random() * total: the ends and the middle of [0, total)
RandomDraws(total) ==
    IF total <= 0 THEN {0} ELSE {0, total \div 2, total - 1}

-----------------------------------------------------------------------------
(* shopifyRequest and the shop behind it *)

\* How one shopifyRequest ends.  The shop handles a request in one step:
\*   "ok"        it handled the request and its reply was read;
\*   "rejected"  it answered with a status outside 2xx and changed nothing:
\*               shopifyRequest throws at `if (!response.ok)`;
\*   "lost"      it handled the request but the connection failed before the
\*               reply was read: `await fetch(...)` (or `await
\*               response.text()`) rejects and shopifyRequest throws.
\* A reply that was read reports the records the shop holds.  The server
\* build also throws, before any request is sent, when its environment is
\* not configured: that is "rejected" here.
Replies == {"ok", "rejected", "lost"}

\* How a GET ends.  A read changes nothing at the shop and is not told
\* apart from its failure by the handler: a read whose reply is lost is a
\* read the shop rejects.
ReadReplies == {"ok", "rejected"}

\* the shop carried the request out
Applied(reply) == reply \in {"ok", "lost"}

\* shopifyRequest throws instead of returning data
Throws(reply) == reply # "ok"

\* the text of the reply of a request the shop rejects
BackendText == "backend detail"

\* err.message of what shopifyRequest throws, as the parts it is put
\* together from: `Shopify API error: ${response.status} - ${text}`
ErrorMessage(reply) ==
    IF reply = "rejected" THEN <<"Shopify API error: 500 - ", BackendText>>
    ELSE <<"fetch failed">>

\* Metafields reading the records of customer c1 whoever is asked for
MetafieldsOfOne(st, customerId) == st["c1"]

\* Metafields whose query matches no record
MetafieldsEmpty(st, customerId) == <<>>

\* the body of GET /customers/{id}/metafields.json?namespace=custom&key=
\* credits_elyxyr: data.metafields, the customer's records in order
Metafields(st, customerId) == st[customerId]

\* ApplyPut with the write dropped
ApplyPutDropped(st, mfId, value) == st

\* PUT /metafields/{mfId}.json: the record with that id gets the value
ApplyPut(st, mfId, value) ==
    [c \in DOMAIN st |->
        [i \in 1..Len(st[c]) |->
            IF st[c][i].id = mfId THEN [st[c][i] EXCEPT !.value = value]
            ELSE st[c][i]]]

\* POST /metafields.json: the owner gets a new record with a fresh id
ApplyPost(st, id, ownerId, value) ==
    [st EXCEPT ![ownerId] = Append(@, [id |-> id, value |-> value])]

\* getCustomerCredits reading the record's id in place of its value
getCustomerCreditsOfId(metafields) ==
    IF Len(metafields) = 0 THEN 0 ELSE metafields[1].id

\* getCustomerCredits once its request returned data
getCustomerCredits(metafields) ==
    IF Len(metafields) = 0 THEN 0
    ELSE LET val == parseInt(metafields[1].value)
         IN  IF val = None THEN 0 ELSE Val(val)

\* the balance a customer has in store st
Balance(st, c) == getCustomerCredits(Metafields(st, c))

-----------------------------------------------------------------------------
(* The handlers' steps *)

NoLocals ==
    [kind |-> "", customerId |-> "", boxId |-> "", bodyCredits |-> None,
     box |-> None,
     beforeCredits |-> None, afterCredits |-> None, prize |-> None,
     newBalance |-> None, mfId |-> None, orderId |-> None,
     orderError |-> None]

Answered == {q \in Reqs : pc[q] = "done"}

\* requests are numbered in the order they arrive
NextToArrive(r) == pc[r] = "idle" /\ \A q \in 1..(r - 1) : pc[q] # "idle"

\* the request arrives: its handler starts with fresh locals
Arrive(r, kind, customerId, boxId) ==
    [loc EXCEPT ![r] = [NoLocals EXCEPT !.kind = kind,
                                         !.customerId = customerId,
                                         !.boxId = boxId]]

\* res.status(status).json(body), which ends the handler
Respond(r, status, body) ==
    /\ resp' = [resp EXCEPT ![r] = Append(@, [status |-> status, body |-> body])]
    /\ pc' = [pc EXCEPT ![r] = "done"]

Log(r, events) == hist' = [hist EXCEPT ![r] = @ \o events]

\* a shopifyRequest of the handler ended with `reply`
Received(r, reply) == replies' = [replies EXCEPT ![r] = Append(@, reply)]

\* notEnoughCredits with the comparison turned round
notEnoughCreditsInverted(beforeCredits, box) ==
    beforeCredits > box.priceCredits

\* `if (beforeCredits < box.priceCredits)`
notEnoughCredits(beforeCredits, box) == beforeCredits < box.priceCredits

\* the 400 of a spin the balance does not pay for
notEnoughBody(beforeCredits, box) ==
    [error |-> "Not enough credits", current |-> beforeCredits,
     required |-> box.priceCredits]

\* `const afterCredits = beforeCredits - box.priceCredits`
afterCreditsOf(beforeCredits, box) == beforeCredits - box.priceCredits

\* the body of the `catch (e)` of the spin route
spinCatchStatus == 500

\* spinCatchBody echoing the error, as `details: String(err)`
spinCatchBodyWithDetails ==
    [error |-> "Internal error on spin", details |-> ErrorMessage("rejected")]

spinCatchBody == [error |-> "Internal error on spin"]

\* the message of the 400 for an unknown box
unknownBoxError(b, boxId) ==
    IF b = "part_000" THEN "Unknown lootbox"
    ELSE "Unknown lootbox '" \o boxId \o "'"

\* the message of the 400 for a missing field
missingFieldError(b) ==
    IF b = "part_000" THEN "Missing customerId or boxId"
    ELSE "Missing 'customerId' or 'boxId' in body."

-----------------------------------------------------------------------------
(* POST /apps/elyxyr/spin *)

\* the customerId and boxId a request body carries; "" is a missing field
BodyCustomerIds == customers \cup {""}

BodyBoxIds == {"elyxyr_basic", "elyxyr_gold", ""}

\* the bodies of the spin requests, as <<customerId, boxId>>: a body without
\* customerId names the box of the table
SpinBodies ==
    {b \in BodyCustomerIds \X BodyBoxIds : b[1] # "" \/ b[2] = "elyxyr_basic"}

\* spinDrawAndDebit with the draw made after the debit was started
spinDebitThenDraw ==
    <<"setCustomerCredits", "req:GET", "weightedRandom">>

\* the steps the handler takes between a sufficient balance and its next
\* await: the draw, then the call of setCustomerCredits and its first request
spinDrawAndDebit ==
    <<"weightedRandom", "setCustomerCredits", "req:GET">>

\* the handler from its start to its first await
Spin(r) ==
    /\ NextToArrive(r)
    /\ \E customerId \in BodyCustomerIds, boxId \in BodyBoxIds :
         LET box == getLootbox(boxId)
         IN  /\ <<customerId, boxId>> \in SpinBodies
             /\ loc' = [Arrive(r, "spin", customerId, boxId)
                            EXCEPT ![r].box = box]
             /\ IF customerId = "" \/ boxId = ""
                THEN /\ Respond(r, 400, [error |-> missingFieldError(build)])
                     /\ Log(r, <<"res:400">>)
                ELSE IF box = None
                THEN /\ Respond(r, 400,
                                [error |-> unknownBoxError(build, boxId)])
                     /\ Log(r, <<"res:400">>)
                ELSE /\ pc' = [pc EXCEPT ![r] = "getCustomerCredits"]
                     /\ Log(r, <<"getCustomerCredits", "req:GET">>)
                     /\ UNCHANGED resp
    /\ prior' = [prior EXCEPT ![r] = Answered]
    /\ UNCHANGED <<build, customers, store, nextId, orders, replies, store0,
                   items, rnd, picked>>

\* spinCatch that logs the error and sends nothing
spinCatchSilent(r, events) ==
    /\ pc' = [pc EXCEPT ![r] = "done"]
    /\ Log(r, events)
    /\ UNCHANGED resp

\* `catch (e)` of the spin route, after the steps `events`
spinCatch(r, events) ==
    /\ Respond(r, spinCatchStatus, spinCatchBody)
    /\ Log(r, events \o <<"res:500">>)

\* the handler resumed when getCustomerCredits settles
SpinGotCredits(r) ==
    /\ pc[r] = "getCustomerCredits"
    /\ \E reply \in ReadReplies :
         /\ Received(r, reply)
         /\ IF Throws(reply)
            THEN /\ spinCatch(r, <<"getCustomerCredits:throw">>)
                 /\ UNCHANGED loc
            ELSE LET beforeCredits ==
                         getCustomerCredits(Metafields(store, loc[r].customerId))
                     box == Val(loc[r].box)
                 IN  IF notEnoughCredits(beforeCredits, box)
                     THEN /\ loc' = [loc EXCEPT
                                       ![r].beforeCredits = Some(beforeCredits)]
                          /\ Respond(r, 400, notEnoughBody(beforeCredits, box))
                          /\ Log(r, <<"getCustomerCredits:ok", "res:400">>)
                     ELSE \E r0 \in RandomDraws(totalWeight(box.items)) :
                          LET afterCredits == afterCreditsOf(beforeCredits, box)
                          IN  /\ loc' = [loc EXCEPT
                                    ![r].beforeCredits = Some(beforeCredits),
                                    ![r].afterCredits = Some(afterCredits),
                                    ![r].prize = weightedRandom(box.items, r0),
                                    ![r].newBalance = Some(afterCredits)]
                              /\ pc' = [pc EXCEPT ![r] = "setCustomerCredits:GET"]
                              /\ Log(r, <<"getCustomerCredits:ok">>
                                          \o spinDrawAndDebit)
                              /\ UNCHANGED resp
    /\ UNCHANGED <<build, customers, store, nextId, orders, prior, store0,
                   items, rnd, picked>>

-----------------------------------------------------------------------------
(* setCustomerCredits, called by the spin and the set-credits routes *)

\* setThrew with the failure swallowed: the spin route goes on to the order
setThrewSwallowed(r) ==
    IF loc[r].kind = "spin"
    THEN /\ pc' = [pc EXCEPT ![r] = "createLootboxOrder"]
         /\ Log(r, <<"setCustomerCredits:throw", "createLootboxOrder",
                     "req:ORDER">>)
         /\ UNCHANGED resp
    ELSE /\ Respond(r, 500, [error |-> "Unable to set credits"])
         /\ Log(r, <<"setCustomerCredits:throw", "res:500">>)

\* setThrew whose spin route calls setCustomerCredits again
setThrewRetries(r) ==
    IF loc[r].kind = "spin"
    THEN /\ pc' = [pc EXCEPT ![r] = "setCustomerCredits:GET"]
         /\ Log(r, <<"setCustomerCredits:throw", "setCustomerCredits",
                     "req:GET">>)
         /\ UNCHANGED resp
    ELSE /\ Respond(r, 500, [error |-> "Unable to set credits"])
         /\ Log(r, <<"setCustomerCredits:throw", "res:500">>)

\* the caller when setCustomerCredits throws: the route's `catch`
setThrew(r) ==
    IF loc[r].kind = "spin"
    THEN spinCatch(r, <<"setCustomerCredits:throw">>)
    ELSE /\ Respond(r, 500, [error |-> "Unable to set credits"])
         /\ Log(r, <<"setCustomerCredits:throw", "res:500">>)

\* setReturned whose spin route returns after the debit without an answer
setReturnedSilent(r) ==
    IF loc[r].kind = "spin"
    THEN /\ pc' = [pc EXCEPT ![r] = "done"]
         /\ Log(r, <<"setCustomerCredits:ok">>)
         /\ UNCHANGED resp
    ELSE /\ Respond(r, 200, [customerId |-> loc[r].customerId,
                             credits |-> Val(loc[r].newBalance)])
         /\ Log(r, <<"setCustomerCredits:ok", "res:200">>)

\* setReturned without the `else` of the write: after the PUT returned the
\* POST is sent as well
setReturnedAlsoCreates(r) ==
    IF pc[r] = "setCustomerCredits:PUT"
    THEN /\ pc' = [pc EXCEPT ![r] = "setCustomerCredits:POST"]
         /\ Log(r, <<"req:POST">>)
         /\ UNCHANGED resp
    ELSE IF loc[r].kind = "spin"
    THEN /\ pc' = [pc EXCEPT ![r] = "createLootboxOrder"]
         /\ Log(r, <<"setCustomerCredits:ok", "createLootboxOrder",
                     "req:ORDER">>)
         /\ UNCHANGED resp
    ELSE /\ Respond(r, 200, [customerId |-> loc[r].customerId,
                             credits |-> Val(loc[r].newBalance)])
         /\ Log(r, <<"setCustomerCredits:ok", "res:200">>)

\* the caller when setCustomerCredits returns: the spin route goes on to
\* createLootboxOrder, the set-credits route answers
setReturned(r) ==
    IF loc[r].kind = "spin"
    THEN /\ pc' = [pc EXCEPT ![r] = "createLootboxOrder"]
         /\ Log(r, <<"setCustomerCredits:ok", "createLootboxOrder",
                     "req:ORDER">>)
         /\ UNCHANGED resp
    ELSE /\ Respond(r, 200, [customerId |-> loc[r].customerId,
                             credits |-> Val(loc[r].newBalance)])
         /\ Log(r, <<"setCustomerCredits:ok", "res:200">>)

\* recordExists that takes one record for none
recordExistsOffByOne(metafields) == Len(metafields) > 1

\* `if (metafields.length > 0)`
recordExists(metafields) == Len(metafields) > 0

\* resumed when the read of the customer's metafields settles
SetRead(r) ==
    /\ pc[r] = "setCustomerCredits:GET"
    /\ \E reply \in ReadReplies :
         /\ Received(r, reply)
         /\ IF Throws(reply)
            THEN /\ setThrew(r)
                 /\ UNCHANGED loc
            ELSE LET metafields == Metafields(store, loc[r].customerId)
                 IN  IF recordExists(metafields)
                     THEN /\ loc' = [loc EXCEPT
                                       ![r].mfId = Some(metafields[1].id)]
                          /\ pc' = [pc EXCEPT ![r] = "setCustomerCredits:PUT"]
                          /\ Log(r, <<"req:PUT">>)
                          /\ UNCHANGED resp
                     ELSE /\ pc' = [pc EXCEPT ![r] = "setCustomerCredits:POST"]
                          /\ Log(r, <<"req:POST">>)
                          /\ UNCHANGED <<loc, resp>>
    /\ UNCHANGED <<build, customers, store, nextId, orders, prior, store0,
                   items, rnd, picked>>

\* resumed when the PUT of the existing record settles
SetPut(r) ==
    /\ pc[r] = "setCustomerCredits:PUT"
    /\ \E reply \in Replies :
         /\ Received(r, reply)
         /\ store' = IF Applied(reply)
                     THEN ApplyPut(store, Val(loc[r].mfId),
                                   NumberToString(Val(loc[r].newBalance)))
                     ELSE store
         /\ IF Throws(reply) THEN setThrew(r) ELSE setReturned(r)
    /\ UNCHANGED <<build, customers, nextId, orders, loc, prior, store0,
                   items, rnd, picked>>

\* resumed when the POST of a new record settles
SetPost(r) ==
    /\ pc[r] = "setCustomerCredits:POST"
    /\ \E reply \in Replies :
         /\ Received(r, reply)
         /\ store' = IF Applied(reply)
                     THEN ApplyPost(store, nextId, loc[r].customerId,
                                    NumberToString(Val(loc[r].newBalance)))
                     ELSE store
         /\ nextId' = IF Applied(reply) THEN nextId + 1 ELSE nextId
         /\ IF Throws(reply) THEN setThrew(r) ELSE setReturned(r)
    /\ UNCHANGED <<build, customers, orders, loc, prior, store0, items, rnd, picked>>

-----------------------------------------------------------------------------
(* createLootboxOrder and the end of the spin route *)

\* How POST /orders.json ends: as a shopifyRequest does, or "noOrder", a 2xx
\* reply whose body carries no order (the shop created none)
OrderReplies == Replies \cup {"noOrder"}

\* createLootboxOrder(customerId, prize, box) once its request settled, id
\* being the id of the order the shop created: what it returns or throws.
\* part_000 returns `data?.order?.id ?? null`; server returns
\* `{ orderId: data.order.id }`, a TypeError when data.order is undefined
createLootboxOrder(b, reply, id) ==
    IF reply = "ok"
    THEN [threw |-> FALSE, orderId |-> Some(id), message |-> <<>>]
    ELSE IF reply = "noOrder"
    THEN IF b = "part_000"
         THEN [threw |-> FALSE, orderId |-> None, message |-> <<>>]
         ELSE [threw |-> TRUE, orderId |-> None,
               message |->
                   <<"Cannot read properties of undefined (reading 'id')">>]
    ELSE [threw |-> TRUE, orderId |-> None, message |-> ErrorMessage(reply)]

\* caughtOrderError with the message dropped
caughtOrderErrorDropped(b, result) == None

\* orderError after the inner try/catch around createLootboxOrder:
\* `err.message || String(err)`, `orderErr.message` of an Error
caughtOrderError(b, result) ==
    IF result.threw THEN Some(result.message) ELSE None

\* successBody reporting the balance read as the balance left
successBodyStale(l) ==
    [success        |-> TRUE,
     customerId     |-> l.customerId,
     boxId          |-> l.boxId,
     boxName        |-> Val(l.box).name,
     credits_before |-> Val(l.beforeCredits),
     credits_after  |-> Val(l.beforeCredits),
     price_credits  |-> Val(l.box).priceCredits,
     prize          |-> [variantId |-> Val(l.prize).variantId,
                         title     |-> Val(l.prize).title],
     orderId        |-> l.orderId,
     orderError     |-> l.orderError]

\* the body of the final res.json of the spin route
successBody(l) ==
    [success        |-> TRUE,
     customerId     |-> l.customerId,
     boxId          |-> l.boxId,
     boxName        |-> Val(l.box).name,
     credits_before |-> Val(l.beforeCredits),
     credits_after  |-> Val(l.afterCredits),
     price_credits  |-> Val(l.box).priceCredits,
     prize          |-> [variantId |-> Val(l.prize).variantId,
                         title     |-> Val(l.prize).title],
     orderId        |-> l.orderId,
     orderError     |-> l.orderError]

\* newOrder with the title of the prize in the place of its variantId
newOrderOfTitle(id, l) ==
    [id |-> id, customer |-> l.customerId,
     variant_id |-> Val(l.prize).title,
     note |-> "Gain lootbox " \o Val(l.box).name]

\* the order the shop creates for the request body of createLootboxOrder
newOrder(id, l) ==
    [id |-> id, customer |-> l.customerId,
     variant_id |-> Val(l.prize).variantId,
     note |-> "Gain lootbox " \o Val(l.box).name]

\* spinFinish without the inner try/catch: a throw of createLootboxOrder
\* reaches the `catch` of the route
spinFinishUncaught(r, result, l) ==
    IF result.threw
    THEN spinCatch(r, <<"createLootboxOrder:throw">>)
    ELSE /\ Respond(r, 200, successBody(l))
         /\ Log(r, <<"createLootboxOrder:ok", "res:200">>)

\* the end of the handler once createLootboxOrder settled with `result`, l
\* being the locals: a throw was caught by the inner try/catch, and the
\* final res.json answers
spinFinish(r, result, l) ==
    /\ Respond(r, 200, successBody(l))
    /\ Log(r, <<IF result.threw THEN "createLootboxOrder:throw"
                ELSE "createLootboxOrder:ok", "res:200">>)

\* the handler resumed when createLootboxOrder settles, to its end
SpinOrderSettled(r) ==
    /\ pc[r] = "createLootboxOrder"
    /\ \E reply \in OrderReplies :
         LET id     == Len(orders) + 1
             result == createLootboxOrder(build, reply, id)
             l      == [loc[r] EXCEPT
                          !.orderId = result.orderId,
                          !.orderError = caughtOrderError(build, result)]
         IN  /\ Received(r, reply)
             /\ orders' = IF Applied(reply)
                          THEN Append(orders, newOrder(id, loc[r]))
                          ELSE orders
             /\ loc' = [loc EXCEPT ![r] = l]
             /\ spinFinish(r, result, l)
    /\ UNCHANGED <<build, customers, store, nextId, prior, store0, items, rnd, picked>>

-----------------------------------------------------------------------------
(* POST /apps/elyxyr/credits/:customerId *)

\* req.body.credits: nothing, a string, or a number (h is twice the number,
\* so that halves can be told apart)
Credits(t, s, h) == [t |-> t, s |-> s, h |-> h]

BodyCredits ==
    {Credits("undefined", <<>>, 0), Credits("string", <<"7">>, 0),
     Credits("number", <<>>, 0 - 10), Credits("number", <<>>, 41)}

\* Number(v) in halves, NaN being None: undefined is NaN, the empty string
\* is 0, a string of an optional sign and digits is that integer and any
\* other string here is NaN
toNumber(v) ==
    IF v.t = "number" THEN Some(v.h)
    ELSE IF v.t = "undefined" THEN None
    ELSE IF v.s = <<>> THEN Some(0)
    ELSE LET body == IF Head(v.s) \in {"-", "+"} THEN Tail(v.s) ELSE v.s
         IN  IF body # <<>> /\ DigitPrefix(body) = body
             THEN Some(2 * Val(parseInt(v.s)))
             ELSE None

\* the test of the set-credits route that answers 400
invalidCredits(b, v) ==
    IF b = "part_000"
    THEN toNumber(v) = None
    ELSE v.t # "number" \/ v.h < 0

\* Math.floor of the number the route goes on with
normalizedCredits(b, v) ==
    IF b = "part_000" THEN Val(toNumber(v)) \div 2 ELSE v.h \div 2

invalidCreditsError(b) ==
    IF b = "part_000" THEN "Invalid credits"
    ELSE "Invalid 'credits' value. Must be a positive number."

\* the handler from its start to its first await
SetCredits(r) ==
    /\ NextToArrive(r)
    /\ \E customerId \in customers, credits \in BodyCredits :
         IF invalidCredits(build, credits)
         THEN /\ loc' = [Arrive(r, "setCredits", customerId, "") EXCEPT
                           ![r].bodyCredits = Some(credits)]
              /\ Respond(r, 400, [error |-> invalidCreditsError(build)])
              /\ Log(r, <<"res:400">>)
         ELSE /\ loc' = [Arrive(r, "setCredits", customerId, "") EXCEPT
                           ![r].bodyCredits = Some(credits),
                           ![r].newBalance =
                               Some(normalizedCredits(build, credits))]
              /\ pc' = [pc EXCEPT ![r] = "setCustomerCredits:GET"]
              /\ Log(r, <<"setCustomerCredits", "req:GET">>)
              /\ UNCHANGED resp
    /\ prior' = [prior EXCEPT ![r] = Answered]
    /\ UNCHANGED <<build, customers, store, nextId, orders, replies, store0,
                   items, rnd, picked>>

-----------------------------------------------------------------------------
(* The server *)

\* what a customer's metafield holds when the server starts: nothing, or one
\* record with a balance or with a text that is no number
InitialValues ==
    {NumberToString(5), NumberToString(20), <<"a", "b", "c">>}

\* the id of the record a customer may have at the start
InitialId(c) == IF c = "c1" THEN 1 ELSE 2

InitialStores(cs) ==
    {st \in [cs -> {<<>>} \cup
                   {<<[id |-> i, value |-> v]>> :
                        i \in 1..2, v \in InitialValues}] :
        \A c \in cs : st[c] # <<>> => st[c][1].id = InitialId(c)}

Init ==
    /\ build \in Builds
    /\ customers = {"c1"}
    /\ store \in InitialStores(customers)
    /\ store0 = store
    /\ nextId = 3
    /\ orders = <<>>
    /\ pc = [r \in Reqs |-> "idle"]
    /\ loc = [r \in Reqs |-> NoLocals]
    /\ resp = [r \in Reqs |-> <<>>]
    /\ hist = [r \in Reqs |-> <<>>]
    /\ prior = [r \in Reqs |-> {}]
    /\ replies = [r \in Reqs |-> <<>>]
    /\ items = <<>>
    /\ rnd = 0
    /\ picked = <<>>

Next ==
    \E r \in Reqs :
        \/ Spin(r)
        \/ SpinGotCredits(r)
        \/ SpinOrderSettled(r)
        \/ SetCredits(r)
        \/ SetRead(r)
        \/ SetPut(r)
        \/ SetPost(r)

Spec == Init /\ [][Next]_vars

-----------------------------------------------------------------------------
(* weightedRandom on its own: any item list, any draw *)

\* the item lists: up to MaxItems items with weights 0..MaxWeight, the
\* variantId of an item being its place in the list
ItemLists ==
    UNION {{[i \in 1..n |-> [variantId |-> i, title |-> "item",
                             weight |-> w[i]]] :
                w \in [1..n -> 0..MaxWeight]} : n \in 0..MaxItems}

\* the values of Math.random() * total the draw is tried on: 0 when the
\* total is 0, else 0..total and one value past the total, which stands for
\* a draw that rounding leaves above every cumulative sum
SampleDraws(total) == IF total = 0 THEN {0} ELSE 0..(total + 1)

InitSample ==
    /\ items \in ItemLists
    /\ rnd \in SampleDraws(totalWeight(items))
    /\ picked = <<>>
    /\ build = "part_000"
    /\ customers = {}
    /\ store = <<>>
    /\ store0 = <<>>
    /\ nextId = 1
    /\ orders = <<>>
    /\ pc = [r \in Reqs |-> "idle"]
    /\ loc = [r \in Reqs |-> NoLocals]
    /\ resp = [r \in Reqs |-> <<>>]
    /\ hist = [r \in Reqs |-> <<>>]
    /\ prior = [r \in Reqs |-> {}]
    /\ replies = [r \in Reqs |-> <<>>]

\* one call weightedRandom(items) whose Math.random() * total is rnd
Sample ==
    /\ picked = <<>>
    /\ picked' = <<weightedRandom(items, rnd)>>
    /\ UNCHANGED <<build, customers, store, nextId, orders, pc, loc, resp,
                   hist, prior, replies, store0, items, rnd>>

NextSample == Sample

SampleSpec == InitSample /\ [][NextSample]_vars

-----------------------------------------------------------------------------
(* Reading a request's history *)

Has(r, e) == \E i \in 1..Len(hist[r]) : hist[r][i] = e

\* the place of the first e in the history of r, 0 when there is none
Pos(r, e) ==
    IF Has(r, e)
    THEN CHOOSE i \in 1..Len(hist[r]) :
             /\ hist[r][i] = e
             /\ \A j \in 1..(i - 1) : hist[r][j] # e
    ELSE 0

\* e happened, and d happened before it
Before(r, d, e) == Has(r, d) /\ Has(r, e) /\ Pos(r, d) < Pos(r, e)

IsSpin(r) == loc[r].kind = "spin"

Price(r) == Val(loc[r].box).priceCredits

\* r sent a write of customer c's balance to the shop
Wrote(r, c) ==
    /\ loc[r].customerId = c
    /\ Has(r, "req:PUT") \/ Has(r, "req:POST")

\* every other writer of r's customer was answered before r arrived
Undisturbed(r) ==
    \A q \in Reqs \ {r} : Wrote(q, loc[r].customerId) => q \in prior[r]

\* no other request wrote the balance of r's customer
OnlyWriter(r) == \A q \in Reqs \ {r} : ~Wrote(q, loc[r].customerId)

\* the spin r was answered with success
SpinSucceeded(r) ==
    /\ IsSpin(r)
    /\ pc[r] = "done"
    /\ resp[r][1].status = 200

-----------------------------------------------------------------------------
(* The claims *)

\* C1: when all requests are spins, no two spins of one customer both got
\* the same balance from getCustomerCredits and both had their
\* setCustomerCredits(before - priceCredits) return.
C1_NoSharedPreRead ==
    (\A q \in Reqs : loc[q].kind \in {"", "spin"}) =>
        \A r1, r2 \in Reqs :
            ( /\ r1 # r2
              /\ IsSpin(r1) /\ IsSpin(r2)
              /\ loc[r1].customerId = loc[r2].customerId
              /\ Has(r1, "setCustomerCredits:ok")
              /\ Has(r2, "setCustomerCredits:ok") )
            => loc[r1].beforeCredits # loc[r2].beforeCredits

\* C2: a spin whose getCustomerCredits returned less than the price is
\* answered 400 "Not enough credits" with current = that balance and
\* required = the price, never calls setCustomerCredits or
\* createLootboxOrder, sends no write, and (no other writer being at work
\* since it arrived) leaves the stored balance what it read.
C2_InsufficientCredits ==
    \A r \in Reqs :
        ( /\ IsSpin(r)
          /\ IsSome(loc[r].beforeCredits)
          /\ Val(loc[r].beforeCredits) < Price(r) )
        => /\ pc[r] = "done"
           /\ resp[r] = << [status |-> 400,
                            body |-> [error |-> "Not enough credits",
                                      current |-> Val(loc[r].beforeCredits),
                                      required |-> Price(r)]] >>
           /\ ~Has(r, "setCustomerCredits")
           /\ ~Has(r, "createLootboxOrder")
           /\ ~Has(r, "req:PUT") /\ ~Has(r, "req:POST")
           /\ ~Has(r, "req:ORDER")
           /\ loc[r].afterCredits = None /\ loc[r].orderId = None
           /\ Undisturbed(r) =>
                  Balance(store, loc[r].customerId)
                      = Val(loc[r].beforeCredits)

\* C2 witness: balance 5, price 10: answered 400 and the balance is still 5
C2_Witness ==
    \E r \in Reqs :
        /\ IsSpin(r) /\ pc[r] = "done"
        /\ loc[r].beforeCredits = Some(5) /\ Price(r) = 10
        /\ resp[r][1].status = 400
        /\ Balance(store, loc[r].customerId) = 5

C4_SetFailureAborts ==
    \A r \in Reqs :
        (IsSpin(r) /\ Has(r, "setCustomerCredits:throw"))
        => /\ pc[r] = "done"
           /\ resp[r] = << [status |-> 500,
                            body |-> [error |-> "Internal error on spin"]] >>
           /\ ~Has(r, "createLootboxOrder")
           /\ ~Has(r, "req:ORDER")
           /\ ~Has(r, "res:200")
           /\ loc[r].orderId = None

\* C4 witness: a spin that paid for the box and whose debit failed
C4_Witness ==
    \E r \in Reqs :
        /\ IsSpin(r) /\ Has(r, "setCustomerCredits:throw")
        /\ Has(r, "weightedRandom")
        /\ pc[r] = "done"

\* C5: a spin answered 500, no other request having written the customer's
\* balance, leaves the stored balance what it was at the start and creates
\* no order.
C5_NotChargedOn500 ==
    \A r \in Reqs :
        ( /\ IsSpin(r) /\ pc[r] = "done"
          /\ resp[r][1].status = 500
          /\ OnlyWriter(r) )
        => /\ Balance(store, loc[r].customerId)
                  = Balance(store0, loc[r].customerId)
           /\ ~Has(r, "req:ORDER")


\* C6: once setCustomerCredits has returned in a spin, every response of
\* that spin is the success response, never a 400 or a 500, and the spin
\* ends with exactly one response.
C6_SuccessAfterDebit ==
    \A r \in Reqs :
        (IsSpin(r) /\ Has(r, "setCustomerCredits:ok"))
        => /\ \A i \in 1..Len(resp[r]) :
                  /\ resp[r][i].status = 200
                  /\ resp[r][i].body.success = TRUE
           /\ ~Has(r, "res:400") /\ ~Has(r, "res:500")
           /\ pc[r] = "done" => Len(resp[r]) = 1

\* C6 witness: a debited spin whose order failed, answered
C6_Witness ==
    \E r \in Reqs :
        /\ IsSpin(r) /\ Has(r, "setCustomerCredits:ok")
        /\ Has(r, "createLootboxOrder:throw")
        /\ pc[r] = "done" /\ Len(resp[r]) = 1

\* the store holds integers >= 0 only
NonNegativeStore(st) ==
    \A c \in DOMAIN st : \A i \in 1..Len(st[c]) :
        /\ parseInt(st[c][i].value) # None
        /\ Val(parseInt(st[c][i].value)) >= 0
        /\ NumberToString(Val(parseInt(st[c][i].value))) = st[c][i].value

\* C7: started from stored balances that are integers >= 0, every stored
\* balance and every value getCustomerCredits returned is an integer >= 0.
C7_BalanceNonNegative ==
    NonNegativeStore(store0) =>
        /\ NonNegativeStore(store)
        /\ \A c \in customers : Balance(store, c) >= 0
        /\ \A r \in Reqs :
               IsSome(loc[r].beforeCredits) => Val(loc[r].beforeCredits) >= 0

\* C8: two successful spins of one customer and box, the second arriving
\* after the first was answered and no other request writing the balance:
\* each reports credits_after = credits_before - price, the second's
\* credits_before is the first's credits_after, and the stored balance is
\* the initial one less twice the price.
C8_SequentialSpins ==
    \A r1, r2 \in Reqs :
        ( /\ r1 # r2
          /\ SpinSucceeded(r1) /\ SpinSucceeded(r2)
          /\ loc[r1].customerId = loc[r2].customerId
          /\ loc[r1].boxId = loc[r2].boxId
          /\ r1 \in prior[r2]
          /\ \A q \in Reqs \ {r1, r2} : ~Wrote(q, loc[r1].customerId) )
        => LET b1 == resp[r1][1].body
               b2 == resp[r2][1].body
               c  == loc[r1].customerId
           IN  /\ b1.credits_after = b1.credits_before - Price(r1)
               /\ b2.credits_after = b2.credits_before - Price(r2)
               /\ b2.credits_before = b1.credits_after
               /\ b1.credits_before = Balance(store0, c)
               /\ Balance(store, c) = Balance(store0, c) - 2 * Price(r1)

\* C8 witness: balance 20, two spins one after the other, balance 0
C8_Witness ==
    \E r1, r2 \in Reqs :
        /\ r1 # r2
        /\ SpinSucceeded(r1) /\ SpinSucceeded(r2)
        /\ r1 \in prior[r2]
        /\ resp[r1][1].body.credits_before = 20
        /\ resp[r2][1].body.credits_after = 0
        /\ Balance(store, loc[r1].customerId) = 0

\* C9: in one spin getCustomerCredits returns before the draw, the draw is
\* made before setCustomerCredits is called and before any write is sent,
\* createLootboxOrder is called only after setCustomerCredits returned, and
\* the success response is sent only after createLootboxOrder returned or
\* threw.
C9_StepOrder ==
    \A r \in Reqs :
        IsSpin(r) =>
            /\ Has(r, "getCustomerCredits:ok")
                   => Before(r, "getCustomerCredits", "getCustomerCredits:ok")
            /\ Has(r, "weightedRandom")
                   => Before(r, "getCustomerCredits:ok", "weightedRandom")
            /\ Has(r, "setCustomerCredits")
                   => Before(r, "weightedRandom", "setCustomerCredits")
            /\ Has(r, "req:PUT") => Before(r, "setCustomerCredits", "req:PUT")
            /\ Has(r, "req:POST")
                   => Before(r, "setCustomerCredits", "req:POST")
            /\ Has(r, "createLootboxOrder")
                   => Before(r, "setCustomerCredits:ok", "createLootboxOrder")
            /\ Has(r, "req:ORDER")
                   => Before(r, "createLootboxOrder", "req:ORDER")
            /\ Has(r, "res:200")
                   => \/ Before(r, "createLootboxOrder:ok", "res:200")
                      \/ Before(r, "createLootboxOrder:throw", "res:200")
            /\ Has(r, "res:200") => hist[r][Len(hist[r])] = "res:200"

\* C9 witness: a spin that went through every step to its success response
C9_Witness ==
    \E r \in Reqs :
        /\ IsSpin(r)
        /\ hist[r] = <<"getCustomerCredits", "req:GET",
                       "getCustomerCredits:ok", "weightedRandom",
                       "setCustomerCredits", "req:GET", "req:PUT",
                       "setCustomerCredits:ok", "createLootboxOrder",
                       "req:ORDER", "createLootboxOrder:ok", "res:200">>

\* the weights of the first k items of the list, added up
RECURSIVE CumWeight(_, _)
CumWeight(its, k) == IF k = 0 THEN 0 ELSE CumWeight(its, k - 1) + its[k].weight

\* the list of the claim's example: weights 60, 30, 10
ExampleItems ==
    << [variantId |-> 1, title |-> "item", weight |-> 60],
       [variantId |-> 2, title |-> "item", weight |-> 30],
       [variantId |-> 3, title |-> "item", weight |-> 10] >>

\* C10: for a non-empty list of positive weights and a draw r with
\* 0 <= r <= total, weightedRandom returns the first item whose cumulative
\* weight is >= r: r on a boundary selects the item that ends there.  With
\* weights 60/30/10, r = 55 and r = 60 select item 1 and r = 61 item 2.
C10_FirstWithinCum ==
    /\ ( /\ picked # <<>>
         /\ items # <<>>
         /\ \A i \in 1..Len(items) : items[i].weight > 0
         /\ rnd <= CumWeight(items, Len(items)) )
       => \E k \in 1..Len(items) :
              /\ picked[1] = Some(items[k])
              /\ rnd <= CumWeight(items, k)
              /\ \A j \in 1..(k - 1) : rnd > CumWeight(items, j)
    /\ weightedRandom(ExampleItems, 55) = Some(ExampleItems[1])
    /\ weightedRandom(ExampleItems, 60) = Some(ExampleItems[1])
    /\ weightedRandom(ExampleItems, 61) = Some(ExampleItems[2])

\* C10 witness: a draw on the boundary of the first of several items
C10_Witness ==
    /\ picked # <<>>
    /\ Len(items) >= 2
    /\ \A i \in 1..Len(items) : items[i].weight > 0
    /\ rnd = items[1].weight
    /\ picked[1] = Some(items[1])

\* the list is one Sample is defined on: not empty, every weight positive
PositiveItems ==
    items # <<>> /\ \A i \in 1..Len(items) : items[i].weight > 0

\* C11: for a non-empty list whose weights are all positive and every draw
\* value, a draw past the total included, weightedRandom returns a value
\* (never undefined) and that value is an item of the list.
C11_SampleReturnsMember ==
    (picked # <<>> /\ PositiveItems)
    => /\ picked[1] # None
       /\ \E k \in 1..Len(items) : picked[1] = Some(items[k])

\* C11 witness: a draw past the total of several items, which no item's
\* test accepts, returns the last item
C11_Witness ==
    /\ picked # <<>>
    /\ PositiveItems
    /\ Len(items) >= 2
    /\ rnd > CumWeight(items, Len(items))
    /\ picked[1] = Some(items[Len(items)])

\* what a call of weightedRandom ended with; the function has no throw
SampleOutcome ==
    IF picked = <<>> THEN "none"
    ELSE IF picked[1] = None THEN "undefined" ELSE "item"

\* C12: a Sample on an empty list, or on a list whose weights are all zero,
\* ends with the error InvalidConfiguration: it returns no item and no
\* undefined value.
C12_InvalidConfiguration ==
    ( /\ picked # <<>>
      /\ \A i \in 1..Len(items) : items[i].weight = 0 )
    => SampleOutcome = "InvalidConfiguration"

-----------------------------------------------------------------------------
(* The store adapter: getCustomerCredits and setCustomerCredits *)

\* the integers a stored text is tried against
StoredIntegers == (0 - 10)..40

\* the stored text is the decimal form of an integer
IsIntegerText(s) == \E n \in StoredIntegers : NumberToString(n) = s

\* the integer whose decimal form the stored text is
IntegerOfText(s) == CHOOSE n \in StoredIntegers : NumberToString(n) = s

\* the balance the records of a customer stand for: 0 without a record or
\* with a value that is no integer, else the stored integer
ExpectedBalance(metafields) ==
    IF metafields = <<>> THEN 0
    ELSE IF IsIntegerText(metafields[1].value)
         THEN IntegerOfText(metafields[1].value)
         ELSE 0

SequentialWriters(c) ==
    \A q1, q2 \in Reqs :
        (Wrote(q1, c) /\ Wrote(q2, c))
        => (q1 = q2 \/ q1 \in prior[q2] \/ q2 \in prior[q1])

\* the write of setCustomerCredits of r is pending
Writing(r) == pc[r] \in {"setCustomerCredits:PUT", "setCustomerCredits:POST"}

\* C14: when setCustomerCredits(customerId, v) returns and no writer of the
\* customer ran concurrently, then: if a record existed it was updated in
\* place through PUT (no record more, identifiers unchanged), else one was
\* created through POST; exactly one record exists, it holds the text of v,
\* and getCustomerCredits on the store now returns v.
C14_SetBalance ==
    [][\A r \in Reqs :
          ( /\ Writing(r)
            /\ pc'[r] # pc[r]
            /\ replies'[r][Len(replies'[r])] = "ok"
            /\ SequentialWriters(loc[r].customerId) )
          => LET c   == loc[r].customerId
                 v   == Val(loc[r].newBalance)
                 old == store[c]
                 new == store'[c]
             IN  /\ IF old # <<>>
                    THEN /\ pc[r] = "setCustomerCredits:PUT"
                         /\ Len(new) = Len(old)
                         /\ \A i \in 1..Len(old) : new[i].id = old[i].id
                    ELSE pc[r] = "setCustomerCredits:POST"
                 /\ Len(new) = 1
                 /\ new[1].value = NumberToString(v)
                 /\ getCustomerCredits(new) = v
                 /\ IntegerOfText(new[1].value) = v]_vars

\* C14 witness: the customer has no record; a first set-credits creates it
\* (the shop gives it identifier 3), a second one, run after the first was
\* answered, updates that record in place with another value
C14_Witness ==
    /\ store0["c1"] = <<>>
    /\ \A r \in {1, 2} :
          /\ loc[r].kind = "setCredits"
          /\ pc[r] = "done"
          /\ resp[r][1].status = 200
    /\ prior[2] = {1}
    /\ Val(loc[1].newBalance) # Val(loc[2].newBalance)
    /\ Has(1, "req:POST")
    /\ Has(2, "req:PUT")
    /\ Len(store["c1"]) = 1
    /\ store["c1"][1].id = 3
    /\ Balance(store, "c1") = Val(loc[2].newBalance)

-----------------------------------------------------------------------------
(* The responses of the spin route *)

\* C15: the success response of a spin reports the call's own state:
\* credits_before is the value its getCustomerCredits returned, credits_after
\* the value it passed to setCustomerCredits, their difference is
\* price_credits, the priceCredits of the box of LOOTBOXES the request names,
\* and boxId is that box's id; a balance equal to the price leaves 0.
C15_ReportsOwnState ==
    \A r \in Reqs :
        SpinSucceeded(r)
        => LET body == resp[r][1].body
           IN  /\ body.credits_before = Val(loc[r].beforeCredits)
               /\ body.credits_after = Val(loc[r].newBalance)
               /\ body.credits_before - body.credits_after
                      = body.price_credits
               /\ \E i \in 1..Len(LOOTBOXES) :
                      /\ LOOTBOXES[i].id = loc[r].boxId
                      /\ body.boxId = LOOTBOXES[i].id
                      /\ body.price_credits = LOOTBOXES[i].priceCredits
               /\ (body.credits_before = body.price_credits
                      => body.credits_after = 0)

\* C15 witness: a spin that read a balance equal to the price, 10, and
\* reports 0 left
C15_Witness ==
    \E r \in Reqs :
        /\ SpinSucceeded(r)
        /\ resp[r][1].body.credits_before = 10
        /\ resp[r][1].body.price_credits = 10
        /\ resp[r][1].body.credits_after = 0

\* the body of the spin request r is not valid: customerId or boxId is
\* missing, or no box of LOOTBOXES has the id
InvalidSpinBody(r) ==
    \/ loc[r].customerId = ""
    \/ loc[r].boxId = ""
    \/ \A i \in 1..Len(LOOTBOXES) : LOOTBOXES[i].id # loc[r].boxId

\* C16: a spin whose body lacks customerId or boxId, or names an unknown
\* box, is answered at once with one 400 whose body has an error field:
\* the handler made no call of getCustomerCredits, setCustomerCredits or
\* createLootboxOrder and sent no request to the shop.
C16_ValidationFirst ==
    \A r \in Reqs :
        (IsSpin(r) /\ InvalidSpinBody(r))
        => /\ pc[r] = "done"
           /\ Len(resp[r]) = 1
           /\ resp[r][1].status = 400
           /\ "error" \in DOMAIN resp[r][1].body
           /\ hist[r] = <<"res:400">>
           /\ replies[r] = <<>>

\* C16 witness: a spin for a customer with a balance that names a box the
\* table does not have
C16_Witness ==
    \E r \in Reqs :
        /\ IsSpin(r)
        /\ loc[r].customerId = "c1"
        /\ loc[r].boxId = "elyxyr_gold"
        /\ Balance(store, "c1") = 20
        /\ resp[r] # <<>>
        /\ resp[r][1].status = 400

\* the parts of the texts a response body carries in its fields error,
\* details and orderError
TextParts(body) ==
    (IF "error" \in DOMAIN body THEN <<body.error>> ELSE <<>>)
    \o (IF "details" \in DOMAIN body THEN body.details ELSE <<>>)
    \o (IF "orderError" \in DOMAIN body /\ body.orderError # None
        THEN Val(body.orderError) ELSE <<>>)

\* a field of the body holds the text the shop sent with its rejection
EchoesBackend(body) ==
    \E i \in 1..Len(TextParts(body)) : TextParts(body)[i] = BackendText

\* one of the shop's replies to request r was a rejection
Rejected(r) == \E i \in 1..Len(replies[r]) : replies[r][i] = "rejected"

-----------------------------------------------------------------------------
(* Two customers, each with at most one request *)

\* the requests that named a customer named different customers
DistinctCustomers ==
    \A q1, q2 \in Reqs :
        (q1 # q2 /\ loc[q1].customerId # "")
        => loc[q1].customerId # loc[q2].customerId

\* the stores the two customers start with: c1 has 20 or no record, c2 has
\* 5 or 20
TwoStores ==
    {st \in InitialStores({"c1", "c2"}) :
        /\ st["c1"] # <<>> => st["c1"][1].value = NumberToString(20)
        /\ st["c2"] # <<>>
        /\ st["c2"][1].value # <<"a", "b", "c">>}

InitTwo ==
    /\ build \in Builds
    /\ customers = {"c1", "c2"}
    /\ store \in TwoStores
    /\ store0 = store
    /\ nextId = 3
    /\ orders = <<>>
    /\ pc = [r \in Reqs |-> "idle"]
    /\ loc = [r \in Reqs |-> NoLocals]
    /\ resp = [r \in Reqs |-> <<>>]
    /\ hist = [r \in Reqs |-> <<>>]
    /\ prior = [r \in Reqs |-> {}]
    /\ replies = [r \in Reqs |-> <<>>]
    /\ items = <<>>
    /\ rnd = 0
    /\ picked = <<>>

\* the steps of the server, the requests being for different customers
NextTwo ==
    \E r \in Reqs :
        \/ Spin(r) /\ DistinctCustomers'
        \/ SpinGotCredits(r)
        \/ SpinOrderSettled(r)
        \/ SetCredits(r) /\ DistinctCustomers'
        \/ SetRead(r)
        \/ SetPut(r)
        \/ SetPost(r)

SpecTwo == InitTwo /\ [][NextTwo]_vars

\* C18: requests for different customers are independent.  A request never
\* reads another customer's record: the balance it read is the one its own
\* customer started with.  It never writes another customer's record: a
\* record differs from its start only if a request for that customer sent
\* a write.  Its response and its customer's balance are what the request
\* yields from its own customer's record alone.
C18_Independent ==
    /\ DistinctCustomers
    /\ \A c \in customers :
          store[c] # store0[c] => \E r \in Reqs : Wrote(r, c)
    /\ \A r \in Reqs :
          loc[r].customerId \in customers
          => LET c == loc[r].customerId
             IN  /\ loc[r].beforeCredits # None
                    => Val(loc[r].beforeCredits) = ExpectedBalance(store0[c])
                 /\ Has(r, "setCustomerCredits:ok")
                    => /\ Len(store[c]) = 1
                       /\ ExpectedBalance(store[c]) = Val(loc[r].newBalance)
                 /\ SpinSucceeded(r)
                    => /\ resp[r][1].body.credits_before
                              = ExpectedBalance(store0[c])
                       /\ resp[r][1].body.credits_after
                              = ExpectedBalance(store0[c]) - Price(r)
                       /\ ExpectedBalance(store[c])
                              = ExpectedBalance(store0[c]) - Price(r)
                 /\ (IsSpin(r) /\ pc[r] = "done" /\ loc[r].box # None
                        /\ ExpectedBalance(store0[c]) < Price(r))
                    => /\ resp[r][1].status # 200
                       /\ store[c] = store0[c]

\* C18 witness: c1 has 20 and c2 has 5; the spins of both interleave, the
\* one for c1 succeeds and leaves 10, the one for c2 is refused with its
\* own balance, 5
C18_Witness ==
    /\ Balance(store0, "c1") = 20
    /\ Balance(store0, "c2") = 5
    /\ IsSpin(1) /\ loc[1].customerId = "c1" /\ SpinSucceeded(1)
    /\ IsSpin(2) /\ loc[2].customerId = "c2" /\ pc[2] = "done"
    /\ loc[2].beforeCredits = Some(5)
    /\ prior[1] = {} /\ prior[2] = {}
    /\ resp[2][1].status = 400
    /\ resp[2][1].body.current = 5
    /\ Balance(store, "c1") = 10
    /\ Balance(store, "c2") = 5

-----------------------------------------------------------------------------
(* Every external call settles *)

\* the server started with a balance of 5 or of 20 for its customer
InitFair ==
    /\ Init
    /\ store["c1"] # <<>>
    /\ store["c1"][1].value \in {NumberToString(5), NumberToString(20)}

\* a pending shopifyRequest of the spin r settles: the handler suspended
\* at its await is resumed, by the reply or by the failure of the request.
\* A spin writes only after it read a balance of at least the price, so
\* its setCustomerCredits finds a record and sends a PUT, never a POST.
Settle(r) ==
    \/ SpinGotCredits(r)
    \/ SetRead(r)
    \/ SetPut(r)
    \/ SpinOrderSettled(r)

\* while calls are pending, one of them settles.  Requests of clients need
\* not arrive, so the routes' first steps have no fairness.
CallsSettle == WF_vars(\E r \in Reqs : Settle(r))

\* the steps of the server when every request is a spin
NextSpins == \E r \in Reqs : Spin(r) \/ Settle(r)

FairSpec == InitFair /\ [][NextSpins]_vars /\ CallsSettle

\* the response of r names the item its draw returned
NamesPrize(r) ==
    /\ pc[r] = "done"
    /\ Len(resp[r]) = 1
    /\ "prize" \in DOMAIN resp[r][1].body
    /\ loc[r].prize # None
    /\ resp[r][1].body.prize.variantId = Val(loc[r].prize).variantId
    /\ resp[r][1].body.prize.title = Val(loc[r].prize).title

\* the setCustomerCredits of the spin r returned: the debit is committed
Debited(r) == IsSpin(r) /\ Has(r, "setCustomerCredits:ok")

\* C19: every external call settling, every spin whose setCustomerCredits
\* returned is eventually answered, and the response names the item drawn:
\* whenever some debited spin has no such response yet, a state follows in
\* which every debited spin has one.  (A response, once sent, stays.)
C19_DebitedSpinAnswered ==
    (\E r \in Reqs : Debited(r) /\ ~NamesPrize(r))
    ~> (\A r \in Reqs : Debited(r) => NamesPrize(r))

\* C19 witness: a spin whose debit was written and whose order the shop
\* rejected is answered with the item drawn
C19_Witness ==
    \E r \in Reqs :
        /\ Debited(r)
        /\ Has(r, "createLootboxOrder:throw")
        /\ NamesPrize(r)

-----------------------------------------------------------------------------
(* Calls and requests of one spin *)

\* how often e is in the history of r
Count(r, e) == Cardinality({i \in 1..Len(hist[r]) : hist[r][i] = e})

\* C20: one spin calls getCustomerCredits, setCustomerCredits and
\* createLootboxOrder at most once each, whatever fails; no request to the
\* shop is sent twice, and a failed call is not issued again: at most one
\* call throws, and a failed reply is the last reply the handler receives.
C20_NoRetry ==
    \A r \in Reqs :
        IsSpin(r)
        => /\ Count(r, "getCustomerCredits") <= 1
           /\ Count(r, "setCustomerCredits") <= 1
           /\ Count(r, "createLootboxOrder") <= 1
           /\ Count(r, "req:GET") <= 2
           /\ Count(r, "req:PUT") + Count(r, "req:POST") <= 1
           /\ Count(r, "req:ORDER") <= 1
           /\ Count(r, "getCustomerCredits:throw")
                + Count(r, "setCustomerCredits:throw")
                + Count(r, "createLootboxOrder:throw") <= 1
           /\ \A i \in 1..(Len(replies[r]) - 1) : replies[r][i] = "ok"
           /\ Len(replies[r]) <= 4

\* C20 witness: the PUT of the debit is rejected; the spin ends with the
\* 500 after one call of each of getCustomerCredits and setCustomerCredits
C20_Witness ==
    \E r \in Reqs :
        /\ IsSpin(r)
        /\ pc[r] = "done"
        /\ replies[r] = <<"ok", "ok", "rejected">>
        /\ Count(r, "getCustomerCredits") = 1
        /\ Count(r, "setCustomerCredits") = 1
        /\ Count(r, "createLootboxOrder") = 0
        /\ resp[r][1].status = 500

-----------------------------------------------------------------------------
(* The requests of one adapter call *)

RequestEvents == {"req:GET", "req:PUT", "req:POST", "req:ORDER"}

IsRequest(e) == e \in RequestEvents

\* the adapter call `call` of r has settled: it returned or threw
Settled(r, call) == Has(r, call \o ":ok") \/ Has(r, call \o ":throw")

\* the requests r sent to the shop between its call of `call` and the
\* return or throw of that call, in order
RequestsOf(r, call) ==
    LET from == Pos(r, call)
        to   == IF Has(r, call \o ":ok") THEN Pos(r, call \o ":ok")
                ELSE Pos(r, call \o ":throw")
    IN  SelectSeq(SubSeq(hist[r], from + 1, to - 1), IsRequest)

\* the replies r received for the requests of its setCustomerCredits: a
\* spin received one reply before, the one of getCustomerCredits
SetReplies(r) ==
    IF IsSpin(r) THEN Tail(replies[r]) ELSE replies[r]

-----------------------------------------------------------------------------
(* Prizes and balance *)

\* the spins of customer c that were answered with success
Successes(c) == {r \in Reqs : SpinSucceeded(r) /\ loc[r].customerId = c}

\* every request that arrived is a spin and was answered, and no reply of
\* the shop was lost on the way
AllSpinsReturned ==
    \A r \in Reqs :
        /\ pc[r] \in {"idle", "done"}
        /\ loc[r].kind \in {"", "spin"}
        /\ \A i \in 1..Len(replies[r]) : replies[r][i] # "lost"

\* C22: the spins being the only writers, once all of them have returned
\* the customer got no more prizes than the initial balance pays for, and
\* the stored balance is the initial one less the price of every success.
C22_PrizesPaidFor ==
    AllSpinsReturned
    => \A c \in customers :
           LET paid == Cardinality(Successes(c)) * LOOTBOXES[1].priceCredits
           IN  /\ paid <= Balance(store0, c)
               /\ Balance(store, c) = Balance(store0, c) - paid

-----------------------------------------------------------------------------
(* The order of a spin *)

\* how the request of createLootboxOrder of the answered spin r ended: the
\* last reply the handler received
OrderReply(r) == replies[r][Len(replies[r])]

\* C23: in the success response of a spin exactly one of orderId and
\* orderError is not null: orderId when createLootboxOrder's request
\* returned an order, orderError when the request failed or its reply
\* carried no order.
C23_OrderIdXorError ==
    \A r \in Reqs :
        SpinSucceeded(r)
        => LET body == resp[r][1].body
           IN  /\ (body.orderId # None) # (body.orderError # None)
               /\ (body.orderId # None) <=> (OrderReply(r) = "ok")
               /\ (body.orderError # None) <=> (OrderReply(r) # "ok")

\* the box of LOOTBOXES the spin r names
NamedBox(r) ==
    LOOTBOXES[CHOOSE i \in 1..Len(LOOTBOXES) : LOOTBOXES[i].id = loc[r].boxId]

-----------------------------------------------------------------------------
(* The records of a customer *)

\* C25 as stated: whatever the interleaving of the setCustomerCredits calls
\* for a customer, the customer never has more than one balance record.
C25_OneRecordEver == \A c \in customers : Len(store[c]) <= 1

\* C25: when the writers of a customer's balance ran one after the other,
\* the customer has at most one record; a customer who started with a
\* record keeps that record, and no request sent a create for them.
C25_OneRecordWhenSequential ==
    \A c \in customers :
        SequentialWriters(c)
        => /\ Len(store[c]) <= 1
           /\ store0[c] # <<>>
              => /\ Len(store[c]) = 1
                 /\ store[c][1].id = store0[c][1].id
                 /\ \A r \in Reqs :
                        loc[r].customerId = c => ~Has(r, "req:POST")

\* C25 witness: the customer has no record; a set-credits creates it, and a
\* spin that arrived after the answer updates it: one record, the created
\* one
C25_Witness ==
    /\ store0["c1"] = <<>>
    /\ loc[1].kind = "setCredits"
    /\ Has(1, "req:POST")
    /\ Has(1, "setCustomerCredits:ok")
    /\ prior[2] = {1}
    /\ SpinSucceeded(2)
    /\ Has(2, "req:PUT")
    /\ store["c1"] = <<[id |-> 3, value |-> NumberToString(10)]>>

-----------------------------------------------------------------------------
(* One response per request *)

\* the handler of the spin r has ended with exactly one response sent
AnsweredOnce(r) == pc[r] = "done" /\ Len(resp[r]) = 1

\* C26: a spin is answered exactly once on every path.  At no time has it
\* two responses; its handler ends with one response sent and sends none
\* before it ends; and, every external call settling, whenever a spin is
\* not answered yet a state follows in which every spin that arrived is.
C26_ExactlyOneResponse ==
    /\ [](\A r \in Reqs :
             IsSpin(r)
             => /\ Len(resp[r]) <= 1
                /\ pc[r] = "done" <=> Len(resp[r]) = 1)
    /\ (\E r \in Reqs : IsSpin(r) /\ ~AnsweredOnce(r))
       ~> (\A r \in Reqs : IsSpin(r) => AnsweredOnce(r))

\* the status of the one response of r
Status(r) == resp[r][1].status

\* C26 witness: a spin whose getCustomerCredits failed ended with one
\* response, the 500, after a spin that was refused for its balance of 5
C26_Witness ==
    /\ IsSpin(1) /\ AnsweredOnce(1)
    /\ Status(1) = 400 /\ loc[1].beforeCredits = Some(5)
    /\ IsSpin(2) /\ AnsweredOnce(2)
    /\ Status(2) = 500 /\ Has(2, "getCustomerCredits:throw")

-----------------------------------------------------------------------------
(* The set-credits route *)

\* the set-credits request r arrived
IsSetCredits(r) == loc[r].kind = "setCredits"

\* the credits of the body are no number (NaN included) or a negative one
BadCredits(v) == v.t # "number" \/ v.h < 0

\* Math.floor of the number v, h being twice the number
FloorOf(v) == CHOOSE n \in (0 - 50)..50 : 2 * n <= v.h /\ v.h < 2 * (n + 1)

\* C27: a set-credits whose credits is no number, NaN or negative is
\* answered 400 without a call of setCustomerCredits and without a request
\* to the shop; for a valid value the route passes floor(credits) to
\* setCustomerCredits, the response reports that value, and it is what the
\* store holds when no other writer was at work since the request arrived.
C27_SetCreditsValidation ==
    \A r \in Reqs :
        IsSetCredits(r)
        => LET v == Val(loc[r].bodyCredits)
           IN  IF BadCredits(v)
               THEN /\ pc[r] = "done"
                    /\ Len(resp[r]) = 1
                    /\ resp[r][1].status = 400
                    /\ hist[r] = <<"res:400">>
                    /\ replies[r] = <<>>
               ELSE /\ Has(r, "setCustomerCredits")
                    /\ loc[r].newBalance = Some(FloorOf(v))
                    /\ Has(r, "setCustomerCredits:ok")
                       => /\ resp[r][1].status = 200
                          /\ resp[r][1].body.credits = FloorOf(v)
                          /\ Undisturbed(r)
                             => Balance(store, loc[r].customerId) = FloorOf(v)

=============================================================================
